---- MODULE Spec2Model ----
(***************************************************************************)
(* The course notebooks of Exercises/ as a state machine.  A notebook is   *)
(* opened in a fresh kernel and its code cells are executed one after the  *)
(* other; a cell that lets an exception escape stops the run.  The model   *)
(* keeps the kernel's global namespace (the set of bound names), what was  *)
(* printed, the importable packages of the host, the calls made into W&B   *)
(* and the position inside train_model of the CIFAR-10 notebook, whose     *)
(* loops are executed step by step.  It also keeps the calls made into     *)
(* torch.cuda, the runs of the W&B sweep agent, and the locals of the      *)
(* functions of the CIFAR-10 notebook that are executed on arguments of    *)
(* their own: CIFAR10Net.forward, evaluate_model, imshow and               *)
(* visualize_predictions.                                                  *)
(***************************************************************************)
EXTENDS Integers, Sequences, FiniteSets, TLC

VARIABLES
    nb,            \* the notebook open in the kernel
    cell,          \* number of code cells executed so far
    bound,         \* names bound in the kernel's global namespace
    exc,           \* exception that escaped the running cell, "none" if none
    out,           \* what the cells printed, in order
    host,          \* the host: platform.system(), linux_distribution, CUDA
    imports,       \* per package, what `import <package>` does on this host
    guard,         \* last call of an import guard: attempts, return value, caught
    procs,         \* child and worker processes: live loader workers, pip runs
    wandbCalls,    \* calls made into the wandb client, in order
    tpc,           \* position inside the CIFAR-10 notebook's train_model
    train,         \* train_model's arguments and local variables
    hist,          \* record of what train_model has done so far
    cudaCalls,     \* calls made into torch.cuda and onto CUDA devices, in order
    sweep,         \* the W&B sweep: runs the agent still has to make, last run
    call           \* a function called on its own: arguments, position, locals

vars == << nb, cell, bound, exc, out, host, imports, guard, procs,
           wandbCalls, tpc, train, hist, cudaCalls, sweep, call >>

\* ------------------------------------------------------------------ bounds

\* largest epochs argument given to train_model
MaxEpochs == 2
\* train loader lengths tried: 0..MaxShort batches, and LogEvery..LogEvery+MaxOver
MaxShort == 2
MaxOver == 1
\* and, for the training records, k * LogEvery up to k * LogEvery + MaxOver
\* batches for k in 1..MaxRecords
MaxRecords == 2
\* at most this many of the six packages fail to import on a host
MaxFailing == 2
\* most CUDA devices on a host
MaxGpus == 2

\* ------------------------------------------------------- program constants

\* `if i % 100 == 99` and `running_loss / 100`
LogEvery == 100
\* DataLoader(..., num_workers=2)
NumWorkers == 2
\* config "epochs": 100 of the first W&B experiment
FirstExperimentEpochs == 100
\* sweep parameter 'epochs': {'value': 50}
SweepEpochs == 50
\* wandb.agent(..., count=5)
SweepCount == 5

\* the imports of verify_setup, in the order the function makes them
Packages == << "torch", "torchvision", "matplotlib", "pandas", "sklearn", "wandb" >>

PackageSet == { Packages[k] : k \in 1..Len(Packages) }

ImportOutcomes == { "ok", "ImportError", "OtherError" }

\* ------------------------------------------------------------ small helpers

Range(s) == { s[k] : k \in 1..Len(s) }

Count(s, x) == Cardinality({ k \in 1..Len(s) : s[k] = x })

RECURSIVE Repeat(_, _)
Repeat(x, n) == IF n = 0 THEN << >> ELSE << x >> \o Repeat(x, n - 1)

\* -------------------------------------------------------- the name space
\* A cell is a sequence of statements: <<"bind", n>> binds the global name n
\* (import, def, class, assignment), <<"use", n>> reads it, <<"call", f>>
\* calls the function bound to f, whose body then reads its own globals.

Bind(n) == << "bind", n >>
Use(n) == << "use", n >>
Call(f) == << "call", f >>

RECURSIVE BindAll(_)
BindAll(ns) == IF ns = << >> THEN << >> ELSE << Bind(Head(ns)) >> \o BindAll(Tail(ns))

RECURSIVE UseAll(_)
UseAll(ns) == IF ns = << >> THEN << >> ELSE << Use(Head(ns)) >> \o UseAll(Tail(ns))

\* The global names the body of each function reads when it is called
\* (names the body binds itself, such as a local import, are not listed).
Body ==
    [ f \in {} |-> {} ]
    @@ ( "get_os_info" :> { "platform" } )
    @@ ( "show_conda_instructions" :> { "get_os_info" } )
    @@ ( "show_environment_setup" :> {} )
    @@ ( "show_package_installation" :> { "get_os_info" } )
    @@ ( "verify_setup" :> {} )
    @@ ( "show_troubleshooting" :> { "get_os_info" } )
    @@ ( "check_gpu_availability" :> { "torch", "sys", "platform" } )
    @@ ( "demonstrate_gpu_operations" :> { "torch" } )
    @@ ( "benchmark_operations" :> { "torch", "time" } )
    @@ ( "demonstrate_memory_management" :> { "torch" } )
    @@ ( "check_multi_gpu" :> { "torch" } )
    @@ ( "imshow" :> { "plt", "np" } )
    @@ ( "CIFAR10Net" :> { "nn", "torch" } )
    @@ ( "train_model" :> { "model", "trainloader", "device", "optimizer",
                            "criterion", "torch", "wandb", "evaluate_model" } )
    @@ ( "evaluate_model" :> { "model", "testloader", "device", "torch", "classes" } )
    @@ ( "visualize_predictions" :> { "model", "testloader", "device", "torch",
                                      "plt", "imshow", "classes" } )
    @@ ( "check_wandb_installation" :> {} )

\* Everything a call of f reads: its own globals and those of the functions
\* it calls in turn.
RECURSIVE Reads(_)
Reads(f) ==
    IF f \notin DOMAIN Body THEN {}
    ELSE Body[f] \cup UNION { Reads(g) : g \in Body[f] \cap DOMAIN Body }

\* Python raises NameError at the first read of a name that is not bound.
RECURSIVE Exec(_, _)
Exec(stmts, b) ==
    IF stmts = << >> THEN [ bound |-> b, exc |-> "none" ]
    ELSE LET s == Head(stmts) IN
         CASE s[1] = "bind" -> Exec(Tail(stmts), b \cup { s[2] })
           [] s[1] = "use" ->
                IF s[2] \in b THEN Exec(Tail(stmts), b)
                ELSE [ bound |-> b, exc |-> "NameError" ]
           [] s[1] = "call" ->
                IF s[2] \in b /\ Reads(s[2]) \subseteq b THEN Exec(Tail(stmts), b)
                ELSE [ bound |-> b, exc |-> "NameError" ]

\* A cell whose names resolve prints `prints` and ends with `e`; one that
\* reads an unbound name ends with NameError instead.
RunCell(n, k, stmts, prints, e) ==
    /\ nb = n
    /\ cell = k - 1
    /\ exc = "none"
    /\ tpc \in { "idle", "returned" }
    /\ cell' = k
    /\ LET r == Exec(stmts, bound) IN
         /\ bound' = r.bound
         /\ exc' = IF r.exc # "none" THEN r.exc ELSE e
         /\ out' = IF r.exc # "none" THEN out ELSE out \o prints

\* ---------------------------------------------------------------- hosts

Systems == { "Darwin", "Windows", "Linux", "FreeBSD", "Java" }

\* "faulty": torch.cuda.is_available() is True and the device query raises
CudaStates == { "unavailable", "available", "faulty" }

Hosts ==
    [ system : Systems, has_linux_distribution : BOOLEAN,
      cuda : CudaStates, gpus : 0..MaxGpus ]

AllOk == [ p \in PackageSet |-> "ok" ]

\* what `import p` does for every package p, with at most MaxFailing failing
ImportTables ==
    { t \in [ PackageSet -> ImportOutcomes ] :
        Cardinality({ p \in PackageSet : t[p] # "ok" }) <= MaxFailing }

NoGuard == [ fn |-> "none", attempts |-> 0, ret |-> "None", caught |-> FALSE ]

NoProcs == [ workers |-> 0, pip |-> 0 ]

NoTrain ==
    [ epochs |-> 0, nBatches |-> 0, epoch |-> 0, i |-> 0,
      running_loss |-> 0, correct |-> 0, total |-> 0 ]

\* the batches gone through since the last training record of the epoch, or
\* since the start of the epoch: how many, their losses, hits and sizes added
NoWindow == [ n |-> 0, loss |-> 0, hits |-> 0, size |-> 0 ]

NoHist ==
    [ batches |-> 0, passes |-> 0, evalLog |-> << >>, testLog |-> << >>,
      trainLog |-> << >>, logged |-> [ kind |-> "none" ],
      window |-> NoWindow, counted |-> 0 ]

\* no sweep agent is running
NoSweep == [ remaining |-> 0, runs |-> 0, last |-> [ kind |-> "none" ] ]

\* no function is being called on its own
NoCall == [ fn |-> "none" ]

\* ------------------------------------------- the local set-up notebook

\* get_os_info() calling platform.linux_distribution() without the hasattr test
get_os_info_unguarded(h) ==
    IF h.system = "Darwin" THEN << "MacOS", "mac_ver()[0]" >>
    ELSE IF h.system = "Windows" THEN << "Windows", "win32_ver()[0]" >>
    ELSE IF h.system = "Linux" THEN << "Linux", "linux_distribution()[0]" >>
    ELSE << "Unknown", "Unknown" >>

\* get_os_info(): the pair it returns for the host's platform.system()
get_os_info(h) ==
    IF h.system = "Darwin" THEN << "MacOS", "mac_ver()[0]" >>
    ELSE IF h.system = "Windows" THEN << "Windows", "win32_ver()[0]" >>
    ELSE IF h.system = "Linux"
         THEN << "Linux", IF h.has_linux_distribution
                          THEN "linux_distribution()[0]" ELSE "Unknown" >>
    ELSE << "Unknown", "Unknown" >>

\* dict.get(key, default)
Get(d, key, default) == IF key \in DOMAIN d THEN d[key] ELSE default

CondaInstructions ==
    ( "Windows" :> "Windows Installation Steps:" )
    @@ ( "MacOS" :> "MacOS Installation Steps:" )
    @@ ( "Linux" :> "Linux Installation Steps:" )

CondaFallback ==
    "Operating system not detected. Please refer to https://docs.conda.io/en/latest/miniconda.html"

\* show_conda_instructions(): the text it returns
show_conda_instructions(h) ==
    LET os_name == get_os_info(h)[1] IN
    Get(CondaInstructions, os_name, CondaFallback)

\* show_package_installation(): what it prints
show_package_installation(h) ==
    LET os_name == get_os_info(h)[1] IN
    << "First, let's check if you have a NVIDIA GPU available...",
       IF os_name = "Windows"
       THEN "To check for NVIDIA GPU on Windows:"
       ELSE "To check for NVIDIA GPU on Linux/MacOS:",
       "Based on whether you have a GPU or not, use one of these installation commands:" >>

CommonIssues ==
    ( "Windows" :> "Common Windows Issues:" )
    @@ ( "MacOS" :> "Common MacOS Issues:" )
    @@ ( "Linux" :> "Common Linux Issues:" )

TroubleFallback == "Please refer to the Conda documentation for troubleshooting."

\* show_troubleshooting(): what it prints
show_troubleshooting(h) ==
    LET os_name == get_os_info(h)[1] IN
    << Get(CommonIssues, os_name, TroubleFallback), "General Troubleshooting:" >>

\* The import statements of a try block, made in order until one raises.
RECURSIVE TryImports(_, _)
TryImports(pkgs, t) ==
    IF pkgs = << >> THEN [ exc |-> "none", attempts |-> 0 ]
    ELSE IF t[Head(pkgs)] # "ok" THEN [ exc |-> t[Head(pkgs)], attempts |-> 1 ]
    ELSE LET r == TryImports(Tail(pkgs), t) IN
         [ exc |-> r.exc, attempts |-> r.attempts + 1 ]

MsgAllInstalled == "All required packages are installed!"
MsgMissing == "Some packages are missing"
MsgFollowInstructions == "Please follow the installation instructions above."

\* The try block of verify_setup: the six imports, then the report.
VerifyBody(t, h) ==
    LET imp == TryImports(Packages, t) IN
    IF imp.exc # "none"
    THEN [ out |-> << >>, exc |-> imp.exc, attempts |-> imp.attempts ]
    ELSE LET head == << MsgAllInstalled, "PyTorch version", "CUDA available" >> IN
         IF h.cuda = "unavailable"
         THEN [ out |-> head, exc |-> "none", attempts |-> imp.attempts ]
         ELSE IF h.cuda = "available"
         THEN [ out |-> head \o << "CUDA version", "GPU device" >>,
                exc |-> "none", attempts |-> imp.attempts ]
         ELSE [ out |-> head \o << "CUDA version" >>,
                exc |-> "RuntimeError", attempts |-> imp.attempts ]

\* a handler that prints its first message and raises again
VerifyHandlerReraises(r) ==
    IF r.exc = "ImportError"
    THEN [ out |-> r.out \o << MsgMissing >>,
           exc |-> "ImportError", attempts |-> r.attempts, caught |-> TRUE ]
    ELSE [ out |-> r.out, exc |-> r.exc, attempts |-> r.attempts, caught |-> FALSE ]

\* a handler written `except Exception as e:`
VerifyHandlerCatchesAll(r) ==
    IF r.exc # "none"
    THEN [ out |-> r.out \o << MsgMissing, MsgFollowInstructions >>,
           exc |-> "none", attempts |-> r.attempts, caught |-> TRUE ]
    ELSE [ out |-> r.out, exc |-> r.exc, attempts |-> r.attempts, caught |-> FALSE ]

\* `except ImportError as e:` of verify_setup
VerifyHandler(r) ==
    IF r.exc = "ImportError"
    THEN [ out |-> r.out \o << MsgMissing, MsgFollowInstructions >>,
           exc |-> "none", attempts |-> r.attempts, caught |-> TRUE ]
    ELSE [ out |-> r.out, exc |-> r.exc, attempts |-> r.attempts, caught |-> FALSE ]

\* verify_setup(): what it prints and the exception it lets escape
verify_setup(t, h) == VerifyHandler(VerifyBody(t, h))

InitSetup ==
    /\ nb = "setup"
    /\ host \in { h \in Hosts : h.gpus = 0
                    /\ (h.has_linux_distribution => h.system = "Linux") }
    /\ imports \in ImportTables

SetupCell1 ==
    /\ RunCell("setup", 1,
               << Bind("platform"), Bind("sys"), Bind("get_os_info"),
                  Call("get_os_info"), Bind("os_name"), Bind("os_version"),
                  Use("os_name"), Use("os_version"), Use("sys") >>,
               << "Detected Operating System", get_os_info(host)[1],
                  get_os_info(host)[2], "Python Version" >>,
               "none")
    /\ UNCHANGED << nb, cudaCalls, sweep, call, host, imports, guard, procs, wandbCalls, tpc, train, hist >>

SetupCell2 ==
    /\ RunCell("setup", 2,
               << Bind("show_conda_instructions"), Call("show_conda_instructions") >>,
               << show_conda_instructions(host) >>,
               "none")
    /\ UNCHANGED << nb, cudaCalls, sweep, call, host, imports, guard, procs, wandbCalls, tpc, train, hist >>

SetupCell3 ==
    /\ RunCell("setup", 3,
               << Bind("show_environment_setup"), Call("show_environment_setup") >>,
               << "Run these commands in your terminal/command prompt:" >>,
               "none")
    /\ UNCHANGED << nb, cudaCalls, sweep, call, host, imports, guard, procs, wandbCalls, tpc, train, hist >>

SetupCell4 ==
    /\ RunCell("setup", 4,
               << Bind("show_package_installation"), Call("show_package_installation") >>,
               show_package_installation(host),
               "none")
    /\ UNCHANGED << nb, cudaCalls, sweep, call, host, imports, guard, procs, wandbCalls, tpc, train, hist >>

SetupCell5 ==
    LET r == verify_setup(imports, host) IN
    /\ RunCell("setup", 5,
               << Bind("verify_setup"), Call("verify_setup") >>,
               r.out, r.exc)
    /\ guard' = [ fn |-> "verify_setup", attempts |-> r.attempts,
                  ret |-> "None", caught |-> r.caught ]
    /\ UNCHANGED << nb, cudaCalls, sweep, call, host, imports, procs, wandbCalls, tpc, train, hist >>

SetupCell6 ==
    /\ RunCell("setup", 6,
               << Bind("show_troubleshooting"), Call("show_troubleshooting") >>,
               show_troubleshooting(host),
               "none")
    /\ UNCHANGED << nb, cudaCalls, sweep, call, host, imports, guard, procs, wandbCalls, tpc, train, hist >>

SetupNext ==
    \/ SetupCell1 \/ SetupCell2 \/ SetupCell3
    \/ SetupCell4 \/ SetupCell5 \/ SetupCell6

\* ------------------------------------------------------ the W&B notebook

\* check_wandb_installation() with a handler that only prints
CheckWandbPrintOnly(t, pipOk) ==
    IF t["wandb"] = "ok"
    THEN [ out |-> << "W&B is installed" >>, exc |-> "none", attempts |-> 1,
           ret |-> "True", caught |-> FALSE, pip |-> 0, imports |-> t ]
    ELSE IF t["wandb"] = "ImportError"
    THEN [ out |-> << "W&B is not installed. Installing now..." >>,
           exc |-> "none", attempts |-> 1, ret |-> "False", caught |-> TRUE,
           pip |-> 0, imports |-> t ]
    ELSE [ out |-> << >>, exc |-> t["wandb"], attempts |-> 1,
           ret |-> "None", caught |-> FALSE, pip |-> 0, imports |-> t ]

\* check_wandb_installation() importing wandb again after the installation
CheckWandbRetries(t, pipOk) ==
    IF t["wandb"] = "ok"
    THEN [ out |-> << "W&B is installed" >>, exc |-> "none", attempts |-> 1,
           ret |-> "True", caught |-> FALSE, pip |-> 0, imports |-> t ]
    ELSE IF t["wandb"] = "ImportError"
    THEN [ out |-> << "W&B is not installed. Installing now..." >>,
           exc |-> IF pipOk THEN "none" ELSE "ImportError", attempts |-> 2,
           ret |-> IF pipOk THEN "True" ELSE "None", caught |-> TRUE,
           pip |-> 1,
           imports |-> IF pipOk THEN [ t EXCEPT !["wandb"] = "ok" ] ELSE t ]
    ELSE [ out |-> << >>, exc |-> t["wandb"], attempts |-> 1,
           ret |-> "None", caught |-> FALSE, pip |-> 0, imports |-> t ]

\* check_wandb_installation(): one import of wandb inside try; the handler of
\* ImportError prints, runs `pip install wandb` and returns False.  pipOk says
\* whether that installation makes wandb importable.
check_wandb_installation(t, pipOk) ==
    IF t["wandb"] = "ok"
    THEN [ out |-> << "W&B is installed" >>, exc |-> "none", attempts |-> 1,
           ret |-> "True", caught |-> FALSE, pip |-> 0, imports |-> t ]
    ELSE IF t["wandb"] = "ImportError"
    THEN [ out |-> << "W&B is not installed. Installing now..." >>,
           exc |-> "none", attempts |-> 1, ret |-> "False", caught |-> TRUE,
           pip |-> 1,
           imports |-> IF pipOk THEN [ t EXCEPT !["wandb"] = "ok" ] ELSE t ]
    ELSE [ out |-> << >>, exc |-> t["wandb"], attempts |-> 1,
           ret |-> "None", caught |-> FALSE, pip |-> 0, imports |-> t ]

InitWandb ==
    /\ nb = "wandb"
    /\ host \in { h \in Hosts : h.system = "Linux" /\ ~h.has_linux_distribution
                    /\ h.cuda = "unavailable" /\ h.gpus = 0 }
    /\ imports \in { t \in ImportTables : \A p \in PackageSet \ { "wandb" } : t[p] = "ok" }

WandbCell1 ==
    \E pipOk \in BOOLEAN :
      LET r == check_wandb_installation(imports, pipOk) IN
      /\ RunCell("wandb", 1,
                 << Bind("check_wandb_installation"), Call("check_wandb_installation") >>,
                 r.out, r.exc)
      /\ guard' = [ fn |-> "check_wandb_installation", attempts |-> r.attempts,
                    ret |-> r.ret, caught |-> r.caught ]
      /\ imports' = r.imports
      /\ procs' = [ procs EXCEPT !.pip = @ + r.pip ]
      /\ UNCHANGED << nb, cudaCalls, sweep, call, host, wandbCalls, tpc, train, hist >>

\* `import wandb` at the top level of the second cell, then wandb.login()
WandbCell2 ==
    /\ IF imports["wandb"] = "ok"
       THEN /\ RunCell("wandb", 2, << Bind("wandb"), Use("wandb") >>, << >>, "none")
            /\ wandbCalls' = wandbCalls \o << "login" >>
       ELSE /\ RunCell("wandb", 2, << >>, << >>, imports["wandb"])
            /\ UNCHANGED wandbCalls
    /\ UNCHANGED << nb, cudaCalls, sweep, call, host, imports, guard, procs, tpc, train, hist >>

WandbCell3 ==
    /\ RunCell("wandb", 3,
               BindAll(<< "np", "torch", "nn", "optim" >>)
               \o << Use("torch"), Bind("X"), Use("X"), Use("torch"), Bind("y"),
                     Use("nn"), Bind("model"), Use("nn"), Bind("criterion"),
                     Use("optim"), Use("model"), Bind("optimizer"), Use("wandb") >>
               \o UseAll(<< "wandb", "optimizer", "model", "X", "criterion", "y" >>),
               << >>, "none")
    /\ wandbCalls' = wandbCalls \o << "init" >>
                       \o Repeat("log", FirstExperimentEpochs) \o << "finish" >>
    /\ UNCHANGED << nb, cudaCalls, sweep, call, host, imports, guard, procs, tpc, train, hist >>

WandbCell4 ==
    /\ RunCell("wandb", 4,
               << Bind("plt") >>
               \o UseAll(<< "wandb", "plt", "X", "y", "model", "wandb", "plt",
                            "wandb", "model" >>)
               \o << Bind("data"), Use("wandb"), Use("data"), Bind("table"),
                     Use("wandb"), Use("table"), Use("wandb") >>,
               << >>, "none")
    /\ wandbCalls' = wandbCalls \o << "init", "log", "watch", "log", "finish" >>
    /\ UNCHANGED << nb, cudaCalls, sweep, call, host, imports, guard, procs, tpc, train, hist >>

\* sweep_configuration['parameters']: the values the sweep draws from
SweepParameters ==
    [ learning_rate |-> { "0.001", "0.01", "0.1" },
      batch_size |-> { 16, 32, 64 },
      epochs |-> { SweepEpochs } ]

\* the wandb.config a run of the sweep may be given ('method': 'random')
SweepConfigs ==
    [ learning_rate : SweepParameters.learning_rate,
      batch_size : SweepParameters.batch_size,
      epochs : SweepParameters.epochs ]

\* the sweep's train_model ending with wandb.finish()
SweepRunFinishes(config) ==
    [ kind |-> "run",
      config |-> config,
      reads |-> { "learning_rate", "epochs" },
      lr |-> config.learning_rate,
      steps |-> config.epochs,
      logged |-> [ e \in 1..config.epochs |-> { "loss" } ],
      calls |-> << "init" >> \o Repeat("log", config.epochs) \o << "finish" >> ]

\* One run of the sweep's train_model under wandb.config = config:
\* wandb.init(), SGD with lr=wandb.config.learning_rate, then
\* wandb.config.epochs times an optimizer step and wandb.log({"loss": ...}).
\* reads: the attributes of wandb.config the function reads.
SweepRun(config) ==
    [ kind |-> "run",
      config |-> config,
      reads |-> { "learning_rate", "epochs" },
      lr |-> config.learning_rate,
      steps |-> config.epochs,
      logged |-> [ e \in 1..config.epochs |-> { "loss" } ],
      calls |-> << "init" >> \o Repeat("log", config.epochs) ]

\* sweep_configuration, wandb.sweep(...), def train_model and the call of
\* wandb.agent(sweep_id, function=train_model, count=5), whose runs the Agent
\* action makes
WandbCell5 ==
    /\ RunCell("wandb", 5,
               << Bind("sweep_configuration"), Use("wandb"), Use("sweep_configuration"),
                  Bind("sweep_id"), Bind("train_model"), Use("wandb"),
                  Use("sweep_id"), Use("train_model") >>
               \o UseAll(<< "wandb", "nn", "optim", "X", "y" >>),
               << >>, "none")
    /\ wandbCalls' = wandbCalls \o << "sweep", "agent" >>
    /\ sweep' = [ NoSweep EXCEPT !.remaining = SweepCount ]
    /\ UNCHANGED << nb, cudaCalls, call, host, imports, guard, procs, tpc, train, hist >>

\* wandb.agent calls train_model once more, with a configuration of the sweep
Agent ==
    /\ nb = "wandb"
    /\ cell = 5
    /\ exc = "none"
    /\ sweep.remaining > 0
    /\ \E config \in SweepConfigs :
         LET run == SweepRun(config) IN
         /\ wandbCalls' = wandbCalls \o run.calls
         /\ sweep' = [ remaining |-> sweep.remaining - 1,
                       runs |-> sweep.runs + 1,
                       last |-> [ run EXCEPT !.calls = << >> ] ]
    /\ UNCHANGED << nb, cell, bound, exc, out, host, imports, guard, procs,
                    tpc, train, hist, cudaCalls, call >>

WandbNext ==
    \/ WandbCell1 \/ WandbCell2 \/ WandbCell3 \/ WandbCell4 \/ WandbCell5
    \/ Agent

\* ------------------------------------------------- the GPU tutorial notebook

\* A function body is a sequence of steps: <<"print", m>> prints m,
\* <<"query", c>> makes a call that needs no device (torch.cuda.is_available),
\* <<"cuda", c>> makes a call that needs a CUDA device.
Say(m) == << "print", m >>
Query(c) == << "query", c >>
Cuda(c) == << "cuda", c >>

RECURSIVE SayAll(_)
SayAll(ms) == IF ms = << >> THEN << >> ELSE << Say(Head(ms)) >> \o SayAll(Tail(ms))

RECURSIVE Times(_, _)
Times(steps, n) == IF n = 0 THEN << >> ELSE steps \o Times(steps, n - 1)

\* torch.cuda.is_available()
is_available(h) == h.cuda # "unavailable"

\* the calls the claims count as needing a CUDA device
CudaOnly ==
    { "tensor.cuda", "device='cuda'", "synchronize", "memory_allocated",
      "memory_reserved", "get_device_name", "device_count", "empty_cache",
      "DataParallel" }

\* Execution of the steps on host h: a call that needs a device raises where
\* there is none, and the first such call raises on a faulty device.
RECURSIVE RunSteps(_, _, _)
RunSteps(h, steps, r) ==
    IF steps = << >> THEN r
    ELSE LET s == Head(steps) IN
         IF s[1] = "print"
         THEN RunSteps(h, Tail(steps), [ r EXCEPT !.out = Append(@, s[2]) ])
         ELSE IF s[1] = "query" \/ h.cuda = "available"
         THEN RunSteps(h, Tail(steps), [ r EXCEPT !.calls = Append(@, s[2]) ])
         ELSE [ r EXCEPT !.calls = Append(@, s[2]), !.exc = "RuntimeError" ]

NoSteps == [ out |-> << >>, calls |-> << >>, exc |-> "none" ]

\* `before`, then `if torch.cuda.is_available(): ifAvailable  else: otherwise`
OnCuda(h, before, ifAvailable, otherwise) ==
    RunSteps(h,
             before \o << Query("is_available") >>
             \o ( IF is_available(h) THEN ifAvailable ELSE otherwise ),
             NoSteps)

check_gpu_availability(h) ==
    OnCuda(h, SayAll(<< "PyTorch version", "Python version", "Operating System" >>),
           << Say("CUDA is available!"), Say("CUDA version"),
              Cuda("get_device_name"), Say("GPU device"),
              Cuda("device_count"), Say("Number of GPUs"),
              Cuda("memory_allocated"), Cuda("memory_reserved"),
              Say("GPU Memory:"), Say("- Allocated"), Say("- Reserved") >>,
           << Say("CUDA is not available. Running on CPU only.") >>)

demonstrate_gpu_operations(h) ==
    OnCuda(h, SayAll(<< "1. Creating tensors:", "CPU tensor device" >>),
           << Cuda("tensor.cuda"), Say("GPU tensor device"),
              Cuda("device='cuda'"), Say("Direct GPU tensor device"),
              Say("2. Basic operations on GPU:"),
              Say("Matrix multiplication result device"),
              Say("3. Moving back to CPU:"),
              Say("Result moved back to CPU device") >>,
           << Say("GPU operations not available") >>)

\* the sizes benchmark_operations times, as it prints them
BenchmarkSizes == << "1000x1000", "2000x2000", "4000x4000" >>

\* one row of the table: gpu_time and speedup are nan without CUDA
BenchmarkRow(h, size) == IF is_available(h) THEN size ELSE size \o " nan nan"

\* benchmark_operations(): per size, the GPU timing under
\* `if torch.cuda.is_available()` and `gpu_time = float('nan')` otherwise;
\* then the table.  It has no message of its own for a host without CUDA.
benchmark_operations(h) ==
    RunSteps(h,
             Times(<< Query("is_available") >>
                   \o ( IF is_available(h)
                        THEN << Cuda("tensor.cuda"), Cuda("tensor.cuda"),
                                Cuda("synchronize"), Cuda("synchronize") >>
                        ELSE << >> ),
                   Len(BenchmarkSizes))
             \o << Say("Matrix Multiplication Performance Comparison:") >>
             \o [ k \in 1..Len(BenchmarkSizes) |-> Say(BenchmarkRow(h, BenchmarkSizes[k])) ],
             NoSteps)

\* demonstrate_memory_management() without the return after its message
MemoryManagementFallsThrough(h) ==
    RunSteps(h,
             << Query("is_available") >>
             \o ( IF is_available(h) THEN << >> ELSE << Say("GPU not available") >> )
             \o << Say("Initial GPU Memory Usage:"),
                   Cuda("memory_allocated"), Cuda("memory_reserved") >>,
             NoSteps)

\* `if not torch.cuda.is_available(): print(...); return`, then the body
demonstrate_memory_management(h) ==
    OnCuda(h, << >>,
           << Say("Initial GPU Memory Usage:"),
              Cuda("memory_allocated"), Cuda("memory_reserved") >>
           \o Times(<< Cuda("device='cuda'"), Say("After creating tensor"),
                       Cuda("memory_allocated"), Cuda("memory_reserved") >>, 5)
           \o << Say("Clearing tensors..."), Cuda("empty_cache"),
                 Say("Final GPU Memory Usage:"),
                 Cuda("memory_allocated"), Cuda("memory_reserved") >>,
           << Say("GPU not available") >>)

\* check_multi_gpu() wrapping the model whenever there is a device
CheckMultiGpuAnyCount(h) ==
    OnCuda(h, << >>,
           << Cuda("device_count"), Say("Number of GPUs available") >>
           \o ( IF h.gpus >= 1
                THEN << Say("GPU Details:") >>
                     \o Times(<< Say("GPU"), Cuda("get_device_name"),
                                 Cuda("memory_allocated"), Cuda("memory_reserved") >>,
                              h.gpus)
                     \o << Cuda("DataParallel"), Say("Model using DataParallel") >>
                ELSE << Say("Multi-GPU training not available (only one GPU detected)") >> ),
           << Say("GPU not available") >>)

\* `if not torch.cuda.is_available(): print(...); return`, then
\* `if num_gpus > 1:` the details of each device and the DataParallel wrapper
check_multi_gpu(h) ==
    OnCuda(h, << >>,
           << Cuda("device_count"), Say("Number of GPUs available") >>
           \o ( IF h.gpus > 1
                THEN << Say("GPU Details:") >>
                     \o Times(<< Say("GPU"), Cuda("get_device_name"),
                                 Cuda("memory_allocated"), Cuda("memory_reserved") >>,
                              h.gpus)
                     \o << Cuda("DataParallel"), Say("Model using DataParallel") >>
                ELSE << Say("Multi-GPU training not available (only one GPU detected)") >> ),
           << Say("GPU not available") >>)

InitGpu ==
    /\ nb = "gpu"
    /\ host \in { h \in Hosts : h.system = "Linux" /\ ~h.has_linux_distribution
                    /\ (h.cuda = "unavailable" <=> h.gpus = 0) }
    /\ imports = AllOk

GpuCell1 ==
    LET r == check_gpu_availability(host) IN
    /\ RunCell("gpu", 1,
               BindAll(<< "torch", "sys", "platform", "check_gpu_availability" >>)
               \o << Call("check_gpu_availability") >>,
               r.out, r.exc)
    /\ cudaCalls' = cudaCalls \o r.calls
    /\ UNCHANGED << nb, sweep, call, host, imports, guard, procs, wandbCalls, tpc, train, hist >>

GpuCell2 ==
    LET r == demonstrate_gpu_operations(host) IN
    /\ RunCell("gpu", 2,
               << Bind("demonstrate_gpu_operations"), Call("demonstrate_gpu_operations") >>,
               r.out, r.exc)
    /\ cudaCalls' = cudaCalls \o r.calls
    /\ UNCHANGED << nb, sweep, call, host, imports, guard, procs, wandbCalls, tpc, train, hist >>

GpuCell3 ==
    LET r == benchmark_operations(host) IN
    /\ RunCell("gpu", 3,
               BindAll(<< "time", "np", "benchmark_operations" >>)
               \o << Call("benchmark_operations") >>,
               r.out, r.exc)
    /\ cudaCalls' = cudaCalls \o r.calls
    /\ UNCHANGED << nb, sweep, call, host, imports, guard, procs, wandbCalls, tpc, train, hist >>

GpuCell4 ==
    LET r == demonstrate_memory_management(host) IN
    /\ RunCell("gpu", 4,
               << Bind("demonstrate_memory_management"),
                  Call("demonstrate_memory_management") >>,
               r.out, r.exc)
    /\ cudaCalls' = cudaCalls \o r.calls
    /\ UNCHANGED << nb, sweep, call, host, imports, guard, procs, wandbCalls, tpc, train, hist >>

GpuCell5 ==
    LET r == check_multi_gpu(host) IN
    /\ RunCell("gpu", 5,
               << Bind("check_multi_gpu"), Call("check_multi_gpu") >>,
               r.out, r.exc)
    /\ cudaCalls' = cudaCalls \o r.calls
    /\ UNCHANGED << nb, sweep, call, host, imports, guard, procs, wandbCalls, tpc, train, hist >>

GpuNext ==
    \/ GpuCell1 \/ GpuCell2 \/ GpuCell3 \/ GpuCell4 \/ GpuCell5

\* ---------------------------------------------------- the CIFAR-10 notebook

\* train loader lengths (batches per epoch) the model tries
LoaderLengths == (0..MaxShort) \cup (LogEvery..(LogEvery + MaxOver))

\* train loader lengths with up to MaxRecords training records in an epoch
RecordLoaderLengths ==
    { k * LogEvery + d : k \in 1..MaxRecords, d \in 0..MaxOver }

\* what one training batch contributes: its size, the number of correct
\* predictions in it and its loss
BatchOutcomes ==
    { [ size |-> 1, hits |-> 0, loss |-> 2 ],
      [ size |-> 1, hits |-> 1, loss |-> 0 ] }

\* overall test accuracies evaluate_model may return
TestAccuracies == { 10, 100 }

NoLog == [ kind |-> "none" ]

InitCifar ==
    /\ nb = "cifar"
    /\ host \in { h \in Hosts : h.system = "Linux" /\ ~h.has_linux_distribution
                    /\ h.cuda = "unavailable" /\ h.gpus = 0 }
    /\ imports = AllOk

CifarCell1 ==
    /\ RunCell("cifar", 1,
               BindAll(<< "torch", "nn", "optim", "torchvision", "transforms",
                          "plt", "np", "wandb" >>)
               \o << Use("torch"), Use("torch"), Bind("device"), Use("device"),
                     Bind("classes") >>,
               << "Using device" >>, "none")
    /\ UNCHANGED << nb, cudaCalls, sweep, call, host, imports, guard, procs, wandbCalls, tpc, train, hist >>

CifarCell2 ==
    /\ RunCell("cifar", 2,
               << Use("transforms"), Bind("transform_train"),
                  Use("transforms"), Bind("transform_test"),
                  Use("torchvision"), Use("transform_train"), Bind("trainset"),
                  Use("torch"), Use("trainset"), Bind("trainloader"),
                  Use("torchvision"), Use("transform_test"), Bind("testset"),
                  Use("torch"), Use("testset"), Bind("testloader") >>,
               << >>, "none")
    /\ UNCHANGED << nb, cudaCalls, sweep, call, host, imports, guard, procs, wandbCalls, tpc, train, hist >>

\* the third cell with a loader that loads in the kernel's own process
CifarCell3InProcess ==
    /\ RunCell("cifar", 3,
               << Bind("imshow"), Use("trainloader"), Bind("dataiter"),
                  Use("dataiter"), Bind("images"), Bind("labels"), Use("plt"),
                  Use("torchvision"), Use("images"), Call("imshow"), Use("plt"),
                  Use("classes"), Use("labels") >>,
               << "sample labels" >>, "none")
    /\ UNCHANGED << nb, cudaCalls, sweep, call, host, imports, guard, procs, wandbCalls, tpc, train, hist >>

\* iter(trainloader) starts the loader's workers; the iterator stays bound to
\* the global dataiter, so they stay alive after the cell.
CifarCell3 ==
    /\ RunCell("cifar", 3,
               << Bind("imshow"), Use("trainloader"), Bind("dataiter"),
                  Use("dataiter"), Bind("images"), Bind("labels"), Use("plt"),
                  Use("torchvision"), Use("images"), Call("imshow"), Use("plt"),
                  Use("classes"), Use("labels") >>,
               << "sample labels" >>, "none")
    /\ procs' = [ procs EXCEPT !.workers = @ + NumWorkers ]
    /\ UNCHANGED << nb, cudaCalls, sweep, call, host, imports, guard, wandbCalls, tpc, train, hist >>

CifarCell4 ==
    /\ RunCell("cifar", 4,
               << Use("nn"), Bind("CIFAR10Net"), Call("CIFAR10Net"), Use("device"),
                  Bind("model"), Use("nn"), Bind("criterion"), Use("optim"),
                  Use("model"), Bind("optimizer"), Use("model") >>,
               << "CIFAR10Net(...)" >>, "none")
    /\ UNCHANGED << nb, cudaCalls, sweep, call, host, imports, guard, procs, wandbCalls, tpc, train, hist >>

\* wandb.init(...), def train_model, and the call of train_model, whose body
\* the Train actions execute.  The cell gives no argument (epochs is then 10);
\* the model lets the argument range over 0..MaxEpochs.  The loader is that of
\* the CIFAR-10 training set, which is not empty.
CifarCell5 ==
    \E e \in 0..MaxEpochs, n \in LoaderLengths \ { 0 } :
      /\ RunCell("cifar", 5,
                 << Use("wandb"), Bind("train_model"), Use("train_model") >>,
                 << >>, "none")
      /\ wandbCalls' = wandbCalls \o << "init" >>
      /\ tpc' = "for_epoch"
      /\ train' = [ NoTrain EXCEPT !.epochs = e, !.nBatches = n ]
      /\ hist' = NoHist
      /\ UNCHANGED << nb, cudaCalls, sweep, call, host, imports, guard, procs >>

\* the call of train_model ends with exception e
TrainRaise(e) ==
    /\ tpc' = "raised"
    /\ exc' = e

\* `for epoch in range(epochs):` up to `for i, data in enumerate(trainloader, 0):`
TrainEpochHead ==
    /\ tpc = "for_epoch"
    /\ exc = "none"
    /\ IF train.epoch < train.epochs
       THEN IF { "model", "trainloader" } \subseteq bound
            THEN /\ tpc' = "for_batch"
                 /\ train' = [ train EXCEPT !.i = 0, !.running_loss = 0,
                                            !.correct = 0, !.total = 0 ]
                 /\ procs' = [ procs EXCEPT !.workers = @ + NumWorkers ]
                 /\ UNCHANGED exc
            ELSE /\ TrainRaise("NameError")
                 /\ UNCHANGED << train, procs >>
       ELSE /\ tpc' = "finish"
            /\ UNCHANGED << train, procs, exc >>
    /\ hist' = [ hist EXCEPT !.logged = NoLog, !.window = NoWindow, !.counted = 0 ]
    /\ UNCHANGED << nb, cudaCalls, sweep, call, cell, bound, out, host, imports, guard, wandbCalls >>

\* `if i % 100 == 99` taken as `if i % 100 == 0`
LogDueOnFirstBatch(i) == i % LogEvery = 0

\* if i % 100 == 99:
LogDue(i) == i % LogEvery = LogEvery - 1

\* the end of the record branch with `correct = 0` left out
AfterRecordKeepsCorrect(t) ==
    [ t EXCEPT !.running_loss = 0, !.total = 0 ]

\* running_loss = 0.0; correct = 0; total = 0
AfterRecord(t) ==
    [ t EXCEPT !.running_loss = 0, !.correct = 0, !.total = 0 ]

\* one iteration of the batch loop
TrainBatch ==
    /\ tpc = "for_batch"
    /\ exc = "none"
    /\ train.i < train.nBatches
    /\ \E b \in BatchOutcomes :
         LET running_loss == train.running_loss + b.loss
             total == train.total + b.size
             correct == train.correct + b.hits
             window == [ n |-> hist.window.n + 1,
                         loss |-> hist.window.loss + b.loss,
                         hits |-> hist.window.hits + b.hits,
                         size |-> hist.window.size + b.size ]
         IN
         IF ~({ "device", "optimizer", "model", "criterion", "torch" } \subseteq bound)
         THEN /\ TrainRaise("NameError")
              /\ UNCHANGED << train, hist, wandbCalls, out >>
         ELSE IF LogDue(train.i)
         THEN IF total = 0
              THEN /\ TrainRaise("ZeroDivisionError")
                   /\ UNCHANGED << train, hist, wandbCalls, out >>
              ELSE IF "wandb" \notin bound
              THEN /\ TrainRaise("NameError")
                   /\ UNCHANGED << train, hist, wandbCalls, out >>
              ELSE /\ wandbCalls' = wandbCalls \o << "log" >>
                   /\ out' = out \o << "loss, accuracy" >>
                   /\ train' = AfterRecord([ train EXCEPT
                                   !.i = @ + 1, !.running_loss = running_loss,
                                   !.correct = correct, !.total = total ])
                   /\ hist' = [ hist EXCEPT
                         !.batches = @ + 1,
                         !.trainLog = Append(@, << train.epoch, train.i >>),
                         !.logged = [ kind |-> "train", epoch |-> train.epoch,
                                      loss |-> << running_loss, LogEvery >>,
                                      accuracy |-> << 100 * correct, total >>,
                                      window |-> window ],
                         !.window = NoWindow,
                         !.counted = @ + window.n ]
                   /\ UNCHANGED << tpc, exc >>
         ELSE /\ train' = [ train EXCEPT !.i = @ + 1, !.running_loss = running_loss,
                                         !.correct = correct, !.total = total ]
              /\ hist' = [ hist EXCEPT !.batches = @ + 1, !.logged = NoLog,
                                       !.window = window ]
              /\ UNCHANGED << tpc, exc, wandbCalls, out >>
    /\ UNCHANGED << nb, cudaCalls, sweep, call, cell, bound, host, imports, guard, procs >>

\* the end of an epoch with the evaluation made after the last epoch only
TrainEpochEndLastOnly ==
    /\ tpc = "for_batch"
    /\ exc = "none"
    /\ train.i = train.nBatches
    /\ procs' = [ procs EXCEPT !.workers = @ - NumWorkers ]
    /\ IF train.epoch < train.epochs - 1
       THEN /\ tpc' = "for_epoch"
            /\ train' = [ train EXCEPT !.epoch = @ + 1 ]
            /\ hist' = [ hist EXCEPT !.passes = @ + 1, !.logged = NoLog ]
            /\ UNCHANGED << wandbCalls, out, exc >>
       ELSE IF "evaluate_model" \notin bound \/ ~(Reads("evaluate_model") \subseteq bound)
               \/ "wandb" \notin bound
       THEN /\ TrainRaise("NameError")
            /\ hist' = [ hist EXCEPT !.passes = @ + 1, !.logged = NoLog ]
            /\ UNCHANGED << train, wandbCalls, out >>
       ELSE \E acc \in TestAccuracies :
            /\ tpc' = "for_epoch"
            /\ train' = [ train EXCEPT !.epoch = @ + 1 ]
            /\ wandbCalls' = wandbCalls \o << "log" >>
            /\ out' = out \o Repeat("Accuracy of", 10) \o << "Test Accuracy" >>
            /\ hist' = [ hist EXCEPT
                  !.passes = @ + 1,
                  !.evalLog = Append(@, << train.epoch, hist.batches >>),
                  !.testLog = Append(@, train.epoch),
                  !.logged = [ kind |-> "test", epoch |-> train.epoch,
                               test_accuracy |-> acc ] ]
            /\ UNCHANGED exc
    /\ UNCHANGED << nb, cudaCalls, sweep, call, cell, bound, host, imports, guard >>

\* the batch loop is exhausted (its workers end), then
\* test_accuracy = evaluate_model(); wandb.log(...); print(...)
TrainEpochEnd ==
    /\ tpc = "for_batch"
    /\ exc = "none"
    /\ train.i = train.nBatches
    /\ procs' = [ procs EXCEPT !.workers = @ - NumWorkers ]
    /\ IF "evaluate_model" \notin bound \/ ~(Reads("evaluate_model") \subseteq bound)
          \/ "wandb" \notin bound
       THEN /\ TrainRaise("NameError")
            /\ hist' = [ hist EXCEPT !.passes = @ + 1, !.logged = NoLog ]
            /\ UNCHANGED << train, wandbCalls, out >>
       ELSE \E acc \in TestAccuracies :
            /\ tpc' = "for_epoch"
            /\ train' = [ train EXCEPT !.epoch = @ + 1 ]
            /\ wandbCalls' = wandbCalls \o << "log" >>
            /\ out' = out \o Repeat("Accuracy of", 10) \o << "Test Accuracy" >>
            /\ hist' = [ hist EXCEPT
                  !.passes = @ + 1,
                  !.evalLog = Append(@, << train.epoch, hist.batches >>),
                  !.testLog = Append(@, train.epoch),
                  !.logged = [ kind |-> "test", epoch |-> train.epoch,
                               test_accuracy |-> acc ] ]
            /\ UNCHANGED exc
    /\ UNCHANGED << nb, cudaCalls, sweep, call, cell, bound, host, imports, guard >>

\* the end of train_model with wandb.finish() left inside the epoch loop:
\* nothing is finished after the last epoch
TrainFinishKeepsRun ==
    /\ tpc = "finish"
    /\ exc = "none"
    /\ out' = out \o << "Finished Training" >>
    /\ tpc' = "returned"
    /\ hist' = [ hist EXCEPT !.logged = NoLog ]
    /\ UNCHANGED << nb, cudaCalls, sweep, call, cell, bound, exc, host, imports, guard, procs, train,
                    wandbCalls >>

\* print('Finished Training'); wandb.finish()
TrainFinish ==
    /\ tpc = "finish"
    /\ exc = "none"
    /\ out' = out \o << "Finished Training" >>
    /\ IF "wandb" \in bound
       THEN /\ wandbCalls' = wandbCalls \o << "finish" >>
            /\ tpc' = "returned"
            /\ UNCHANGED exc
       ELSE /\ TrainRaise("NameError")
            /\ UNCHANGED wandbCalls
    /\ hist' = [ hist EXCEPT !.logged = NoLog ]
    /\ UNCHANGED << nb, cudaCalls, sweep, call, cell, bound, host, imports, guard, procs, train >>

TrainNext ==
    \/ TrainEpochHead
    \/ TrainBatch
    \/ TrainEpochEnd
    \/ TrainFinish

\* def evaluate_model, then print(... evaluate_model()): a pass over the
\* test loader, whose workers live for the length of the pass
CifarCell6 ==
    /\ RunCell("cifar", 6,
               << Bind("evaluate_model"), Call("evaluate_model") >>,
               Repeat("Accuracy of", 10) \o << "Overall Test Accuracy" >>, "none")
    /\ UNCHANGED << nb, cudaCalls, sweep, call, host, imports, guard, procs, wandbCalls, tpc, train, hist >>

CifarCell7 ==
    /\ RunCell("cifar", 7,
               << Bind("visualize_predictions"), Call("visualize_predictions") >>,
               << >>, "none")
    /\ UNCHANGED << nb, cudaCalls, sweep, call, host, imports, guard, procs, wandbCalls, tpc, train, hist >>

CifarNext ==
    \/ CifarCell1 \/ CifarCell2 \/ CifarCell3 \/ CifarCell4
    \/ CifarCell5 \/ CifarCell6 \/ CifarCell7

\* The kernel at a call of train_model(epochs): the cells before the training
\* cell have run and wandb.init has started a run; evaluate_model is bound if
\* its cell was run before this call.
NamesBeforeTraining ==
    { "torch", "nn", "optim", "torchvision", "transforms", "plt", "np", "wandb",
      "device", "classes", "transform_train", "transform_test", "trainset",
      "trainloader", "testset", "testloader", "imshow", "dataiter", "images",
      "labels", "CIFAR10Net", "model", "criterion", "optimizer", "train_model" }

InitTrain ==
    /\ InitCifar
    /\ cell = 5
    /\ bound \in { NamesBeforeTraining, NamesBeforeTraining \cup { "evaluate_model" } }
    /\ exc = "none"
    /\ out = << >>
    /\ guard = NoGuard
    /\ procs = [ NoProcs EXCEPT !.workers = NumWorkers ]
    /\ wandbCalls = << "init" >>
    /\ tpc = "for_epoch"
    /\ train \in { [ NoTrain EXCEPT !.epochs = e, !.nBatches = n ] :
                     e \in 0..MaxEpochs, n \in LoaderLengths }
    /\ hist = NoHist
    /\ cudaCalls = << >>
    /\ sweep = NoSweep
    /\ call = NoCall

SpecTrain == InitTrain /\ [][TrainNext]_vars

\* the interpreter keeps executing the call until it returns or raises
SpecTrainFair == SpecTrain /\ WF_vars(TrainNext)

\* train_model called, after all the cells that define what it reads, on
\* loaders long enough for several training records in an epoch
InitTrainRecords ==
    /\ InitCifar
    /\ cell = 5
    /\ bound = NamesBeforeTraining \cup { "evaluate_model" }
    /\ exc = "none"
    /\ out = << >>
    /\ guard = NoGuard
    /\ procs = [ NoProcs EXCEPT !.workers = NumWorkers ]
    /\ wandbCalls = << "init" >>
    /\ tpc = "for_epoch"
    /\ train \in { [ NoTrain EXCEPT !.epochs = e, !.nBatches = n ] :
                     e \in 1..MaxEpochs, n \in RecordLoaderLengths }
    /\ hist = NoHist
    /\ cudaCalls = << >>
    /\ sweep = NoSweep
    /\ call = NoCall

SpecTrainRecords == InitTrainRecords /\ [][TrainNext]_vars

\* ------------------------------------------------------------------ kernel

\* a fresh kernel: nothing bound, nothing printed, no call made
Fresh ==
    /\ cell = 0
    /\ bound = {}
    /\ exc = "none"
    /\ out = << >>
    /\ guard = NoGuard
    /\ procs = NoProcs
    /\ wandbCalls = << >>
    /\ tpc = "idle"
    /\ train = NoTrain
    /\ hist = NoHist
    /\ cudaCalls = << >>
    /\ sweep = NoSweep
    /\ call = NoCall

Init ==
    /\ Fresh
    /\ \/ InitSetup
       \/ InitGpu
       \/ InitWandb
       \/ InitCifar

Next ==
    \/ SetupNext
    \/ GpuNext
    \/ WandbNext
    \/ CifarNext
    \/ TrainNext

Spec == Init /\ [][Next]_vars

\* ------------------------------------------- functions called on their own
\* The functions of the CIFAR-10 notebook below are executed on arguments of
\* their own, in a kernel that does nothing else.

OnItsOwn ==
    /\ InitCifar
    /\ cell = 0
    /\ bound = {}
    /\ exc = "none"
    /\ out = << >>
    /\ guard = NoGuard
    /\ procs = NoProcs
    /\ wandbCalls = << >>
    /\ tpc = "idle"
    /\ train = NoTrain
    /\ hist = NoHist
    /\ cudaCalls = << >>
    /\ sweep = NoSweep

OnlyCallAndExc ==
    UNCHANGED << nb, cell, bound, host, imports, guard, procs, wandbCalls,
                 tpc, train, hist, cudaCalls, sweep >>

\* ----------------------------------------------------- CIFAR10Net.forward
\* A tensor is modelled by its shape: <<B, C, H, W>> or <<rows, features>>.

\* largest batch given to forward
MaxBatch == 4

\* the shape of no tensor: the layer refused its input
BadShape == << >>

\* nn.Conv2d with no padding, whatever padding it is given
Conv2dUnpadded(x, cin, cout, k, padding) ==
    IF Len(x) = 4 /\ x[2] = cin /\ x[3] >= k /\ x[4] >= k
    THEN << x[1], cout, x[3] - k + 1, x[4] - k + 1 >>
    ELSE BadShape

\* nn.Conv2d(cin, cout, k, padding=padding), stride 1
Conv2d(x, cin, cout, k, padding) ==
    IF Len(x) = 4 /\ x[2] = cin /\ x[3] + 2 * padding >= k /\ x[4] + 2 * padding >= k
    THEN << x[1], cout, x[3] + 2 * padding - k + 1, x[4] + 2 * padding - k + 1 >>
    ELSE BadShape

\* nn.BatchNorm2d(features)
BatchNorm2d(x, features) ==
    IF Len(x) = 4 /\ x[2] = features THEN x ELSE BadShape

\* nn.MaxPool2d(k, stride)
MaxPool2d(x, k, stride) ==
    IF Len(x) = 4 /\ x[3] >= k /\ x[4] >= k
    THEN << x[1], x[2], (x[3] - k) \div stride + 1, (x[4] - k) \div stride + 1 >>
    ELSE BadShape

RECURSIVE Numel(_)
Numel(x) == IF x = << >> THEN 1 ELSE Head(x) * Numel(Tail(x))

\* x.view(-1, features)
View(x, features) ==
    IF x # BadShape /\ Numel(x) % features = 0
    THEN << Numel(x) \div features, features >>
    ELSE BadShape

\* nn.Linear(in_features, out_features)
Linear(x, in_features, out_features) ==
    IF Len(x) >= 1 /\ x[Len(x)] = in_features
    THEN [ x EXCEPT ![Len(x)] = out_features ]
    ELSE BadShape

\* the layers of CIFAR10Net.__init__ in the order forward applies them
ForwardLayers ==
    << [ op |-> "conv", cin |-> 3, cout |-> 32 ],
       [ op |-> "batch_norm", features |-> 32 ],
       [ op |-> "relu" ],
       [ op |-> "pool" ],
       [ op |-> "conv", cin |-> 32, cout |-> 64 ],
       [ op |-> "batch_norm", features |-> 64 ],
       [ op |-> "relu" ],
       [ op |-> "pool" ],
       [ op |-> "conv", cin |-> 64, cout |-> 128 ],
       [ op |-> "batch_norm", features |-> 128 ],
       [ op |-> "relu" ],
       [ op |-> "pool" ],
       [ op |-> "view", features |-> 128 * 4 * 4 ],
       [ op |-> "linear", in_features |-> 128 * 4 * 4, out_features |-> 512 ],
       [ op |-> "relu" ],
       [ op |-> "dropout" ],
       [ op |-> "linear", in_features |-> 512, out_features |-> 10 ] >>

ApplyLayer(l, x) ==
    CASE l.op = "conv" -> Conv2d(x, l.cin, l.cout, 3, 1)
      [] l.op = "batch_norm" -> BatchNorm2d(x, l.features)
      [] l.op = "pool" -> MaxPool2d(x, 2, 2)
      [] l.op = "view" -> View(x, l.features)
      [] l.op = "linear" -> Linear(x, l.in_features, l.out_features)
      [] OTHER -> x

\* the inputs given to forward: batches of 1..MaxBatch images of 1 or 3
\* channels and 16, 32 or 64 pixels a side
ForwardInputs ==
    { << b, c, s, s >> : b \in 1..MaxBatch, c \in { 1, 3 }, s \in { 16, 32, 64 } }

InitForward ==
    /\ OnItsOwn
    /\ call \in { [ fn |-> "forward", input |-> x, x |-> x, pc |-> 0 ] : x \in ForwardInputs }

\* the next layer of forward is applied to x
ForwardStep ==
    /\ call.fn = "forward"
    /\ exc = "none"
    /\ call.pc < Len(ForwardLayers)
    /\ LET y == ApplyLayer(ForwardLayers[call.pc + 1], call.x) IN
         IF y = BadShape
         THEN /\ exc' = "RuntimeError"
              /\ UNCHANGED call
         ELSE /\ call' = [ call EXCEPT !.x = y, !.pc = @ + 1 ]
              /\ UNCHANGED exc
    /\ UNCHANGED out
    /\ OnlyCallAndExc

SpecForward == InitForward /\ [][ForwardStep]_vars

\* ----------------------------------------------------------- evaluate_model

\* testloader = DataLoader(testset, batch_size=100, ...)
TestBatchSize == 100
\* class_correct = list(0. for i in range(10))
NumClasses == 10
\* most images of one class in a test set
MaxCopies == 2

RECURSIVE Labelled(_, _)
\* the labels of a test set with `copies` images of each class of `present`
Labelled(present, copies) ==
    IF present = {} THEN << >>
    ELSE LET c == CHOOSE m \in present : \A n \in present : m <= n IN
         Repeat(c, copies) \o Labelled(present \ { c }, copies)

\* the test sets evaluate_model is run on: any set of the classes, the empty
\* one included, with 1..MaxCopies images of each
TestSets ==
    { Labelled(present, copies) :
        present \in SUBSET (0..(NumClasses - 1)), copies \in 1..MaxCopies }

\* what `_, predicted = torch.max(outputs.data, 1)` gives for an image of
\* class `label`: a model that is always right, and one that always answers 0
Classifiers == { "exact", "always 0" }

Predict(m, label) == IF m = "exact" THEN label ELSE 0

Min(a, b) == IF a <= b THEN a ELSE b

InitEvaluate ==
    /\ OnItsOwn
    /\ call \in { [ fn |-> "evaluate_model", labels |-> t, model |-> m,
                    pc |-> "for data", k |-> 0, i |-> 0,
                    correct |-> 0, total |-> 0,
                    class_correct |-> [ c \in 0..(NumClasses - 1) |-> 0 ],
                    class_total |-> [ c \in 0..(NumClasses - 1) |-> 0 ],
                    result |-> << 0, 0 >> ] :
                  t \in TestSets, m \in Classifiers }

\* One image of the loop over testloader.  With the first image of a batch
\* the batch's size and number of correct predictions are added to total and
\* correct.  c = (predicted == labels).squeeze() has no dimension left when
\* the batch holds one image, and c[i] then raises IndexError.
EvaluateImage ==
    /\ call.fn = "evaluate_model"
    /\ call.pc = "for data"
    /\ exc = "none"
    /\ call.k < Len(call.labels)
    /\ LET first == call.k - (call.k % TestBatchSize)
           size == Min(TestBatchSize, Len(call.labels) - first)
           hits == Cardinality({ j \in (first + 1)..(first + size) :
                                   Predict(call.model, call.labels[j]) = call.labels[j] })
           atHead == call.k = first
           total == IF atHead THEN call.total + size ELSE call.total
           correct == IF atHead THEN call.correct + hits ELSE call.correct
           label == call.labels[call.k + 1]
           c == IF Predict(call.model, label) = label THEN 1 ELSE 0
       IN
       IF size = 1
       THEN /\ exc' = "IndexError"
            /\ call' = [ call EXCEPT !.total = total, !.correct = correct ]
       ELSE /\ call' = [ call EXCEPT !.total = total, !.correct = correct,
                                     !.k = @ + 1,
                                     !.class_correct[label] = @ + c,
                                     !.class_total[label] = @ + 1 ]
            /\ UNCHANGED exc
    /\ UNCHANGED out
    /\ OnlyCallAndExc

\* `for i in range(10): print(... 100 * class_correct[i] / class_total[i] ...)`:
\* one iteration; the division raises when class i has no image
EvaluatePrint ==
    /\ call.fn = "evaluate_model"
    /\ \/ call.pc = "for data" /\ call.k = Len(call.labels)
       \/ call.pc = "for i"
    /\ exc = "none"
    /\ call.i < NumClasses
    /\ IF call.class_total[call.i] = 0
       THEN /\ exc' = "ZeroDivisionError"
            /\ call' = [ call EXCEPT !.pc = "for i" ]
            /\ UNCHANGED out
       ELSE /\ out' = Append(out, "Accuracy of")
            /\ call' = [ call EXCEPT !.pc = "for i", !.i = @ + 1 ]
            /\ UNCHANGED exc
    /\ OnlyCallAndExc

\* return 100 * correct / total
EvaluateReturn ==
    /\ call.fn = "evaluate_model"
    /\ call.pc = "for i"
    /\ exc = "none"
    /\ call.i = NumClasses
    /\ IF call.total = 0
       THEN /\ exc' = "ZeroDivisionError"
            /\ UNCHANGED call
       ELSE /\ call' = [ call EXCEPT !.pc = "returned",
                                     !.result = << 100 * call.correct, call.total >> ]
            /\ UNCHANGED exc
    /\ UNCHANGED out
    /\ OnlyCallAndExc

EvaluateNext == EvaluateImage \/ EvaluatePrint \/ EvaluateReturn

SpecEvaluate == InitEvaluate /\ [][EvaluateNext]_vars

\* ------------------------------------------------------------------- imshow
\* Pixel values are rationals << numerator, denominator >> in lowest terms
\* with a positive denominator.

\* transforms.ToTensor() maps the bytes 0..255 of an image to [0, 1]
PixelMax == 255

Abs(a) == IF a < 0 THEN 0 - a ELSE a

RECURSIVE Gcd(_, _)
Gcd(a, b) == IF b = 0 THEN a ELSE Gcd(b, a % b)

Rat(n, d) ==
    LET g == Gcd(Abs(n), Abs(d))
        sgn == IF d < 0 THEN 0 - 1 ELSE 1
    IN << sgn * (n \div g), sgn * (d \div g) >>

RatAdd(a, b) ==
    LET g == Gcd(a[2], b[2]) IN
    Rat(a[1] * (b[2] \div g) + b[1] * (a[2] \div g), (a[2] \div g) * b[2])

RatSub(a, b) == RatAdd(a, << 0 - b[1], b[2] >>)

RatMul(a, b) ==
    LET g1 == Gcd(Abs(a[1]), b[2])
        g2 == Gcd(Abs(b[1]), a[2])
    IN Rat((a[1] \div g1) * (b[1] \div g2), (a[2] \div g2) * (b[2] \div g1))

RatDiv(a, b) == RatMul(a, Rat(b[2], b[1]))

RatLeq(a, b) == a[1] * b[2] <= b[1] * a[2]

\* transforms.Normalize((0.4914, 0.4822, 0.4465), (0.2023, 0.1994, 0.2010))
NormalizeMean == << Rat(4914, 10000), Rat(4822, 10000), Rat(4465, 10000) >>
NormalizeStd == << Rat(2023, 10000), Rat(1994, 10000), Rat(2010, 10000) >>

\* transforms.ToTensor() on one byte of the image
ToTensor(byte) == Rat(byte, PixelMax)

\* transforms.Normalize(mean, std) on the value x of channel c
Normalize(x, c) == RatDiv(RatSub(x, NormalizeMean[c]), NormalizeStd[c])

\* imshow: img = img / 2 + 0.5
Unnormalize(img) == RatAdd(RatDiv(img, Rat(2, 1)), Rat(1, 2))

InitImshow ==
    /\ OnItsOwn
    /\ call \in { [ fn |-> "imshow", byte |-> b, channel |-> c, pc |-> "image",
                    x |-> << 0, 1 >>, img |-> << 0, 1 >> ] :
                  b \in 0..PixelMax, c \in 1..3 }

\* the transform of the data set: ToTensor, then Normalize
Transform ==
    /\ call.fn = "imshow"
    /\ call.pc = "image"
    /\ LET x == ToTensor(call.byte) IN
         call' = [ call EXCEPT !.pc = "normalized", !.x = x,
                               !.img = Normalize(x, call.channel) ]
    /\ UNCHANGED << exc, out >>
    /\ OnlyCallAndExc

\* imshow(img) up to plt.imshow
Imshow ==
    /\ call.fn = "imshow"
    /\ call.pc = "normalized"
    /\ call' = [ call EXCEPT !.pc = "shown", !.img = Unnormalize(call.img) ]
    /\ UNCHANGED << exc, out >>
    /\ OnlyCallAndExc

ImshowNext == Transform \/ Imshow

SpecImshow == InitImshow /\ [][ImshowNext]_vars

\* ---------------------------------------------------- visualize_predictions

\* most images in the batch taken from testloader
MaxImages == 3
\* the labels of those images are among 0..MaxLabel
MaxLabel == 2

\* classes = ('plane', 'car', 'bird', ...)
classes ==
    << "plane", "car", "bird", "cat", "deer", "dog", "frog", "horse", "ship", "truck" >>

\* images, labels = next(dataiter): the labels of the first test batch
VisualizeBatches ==
    UNION { [ 1..n -> 0..MaxLabel ] : n \in 0..MaxImages }

InitVisualize ==
    /\ OnItsOwn
    /\ call \in { [ fn |-> "visualize_predictions", num_images |-> n,
                    labels |-> l, model |-> m, pc |-> "for idx", idx |-> 0,
                    subplots |-> << >> ] :
                  n \in 0..(MaxImages + 1), l \in VisualizeBatches, m \in Classifiers }

\* predicted[idx] of `_, predicted = torch.max(outputs, 1)`, idx from 0
Predicted(c, idx) == Predict(c.model, c.labels[idx + 1])

\* one iteration of the loop, with the border green whatever was predicted
VisualizeImageAlwaysGreen ==
    /\ call.fn = "visualize_predictions"
    /\ call.pc = "for idx"
    /\ exc = "none"
    /\ call.idx < call.num_images
    /\ LET idx == call.idx
           ax == [ position |-> idx + 1, image |-> idx, color |-> "none",
                   title |-> << >> ]
       IN
       IF idx >= Len(call.labels)
       THEN /\ exc' = "IndexError"
            /\ call' = [ call EXCEPT !.subplots = Append(@, [ ax EXCEPT !.image = 0 - 1 ]) ]
       ELSE /\ call' = [ call EXCEPT
                 !.idx = @ + 1,
                 !.subplots = Append(@,
                     [ ax EXCEPT !.color = "green",
                                 !.title = << << "Pred", classes[Predicted(call, idx) + 1] >> >> ]) ]
            /\ UNCHANGED exc
    /\ UNCHANGED out
    /\ OnlyCallAndExc

\* One iteration of `for idx in range(num_images)`: add_subplot, imshow of
\* images[idx] (IndexError past the end of the batch), the title with the
\* prediction, then the border, green or red, and for a wrong prediction the
\* title set again with a second line for the true class.
VisualizeImage ==
    /\ call.fn = "visualize_predictions"
    /\ call.pc = "for idx"
    /\ exc = "none"
    /\ call.idx < call.num_images
    /\ LET idx == call.idx
           ax == [ position |-> idx + 1, image |-> idx, color |-> "none",
                   title |-> << >> ]
       IN
       IF idx >= Len(call.labels)
       THEN /\ exc' = "IndexError"
            /\ call' = [ call EXCEPT !.subplots = Append(@, [ ax EXCEPT !.image = 0 - 1 ]) ]
       ELSE LET pred == << "Pred", classes[Predicted(call, idx) + 1] >>
                true == << "True", classes[call.labels[idx + 1] + 1] >>
            IN
            /\ call' = [ call EXCEPT
                 !.idx = @ + 1,
                 !.subplots = Append(@,
                     IF Predicted(call, idx) = call.labels[idx + 1]
                     THEN [ ax EXCEPT !.color = "green", !.title = << pred >> ]
                     ELSE [ ax EXCEPT !.color = "red", !.title = << pred, true >> ]) ]
            /\ UNCHANGED exc
    /\ UNCHANGED out
    /\ OnlyCallAndExc

\* plt.tight_layout(); plt.show()
VisualizeShow ==
    /\ call.fn = "visualize_predictions"
    /\ call.pc = "for idx"
    /\ exc = "none"
    /\ call.idx = call.num_images
    /\ call' = [ call EXCEPT !.pc = "returned" ]
    /\ UNCHANGED << exc, out >>
    /\ OnlyCallAndExc

VisualizeNext == VisualizeImage \/ VisualizeShow

SpecVisualize == InitVisualize /\ [][VisualizeNext]_vars

\* ================================================================== claims

InOut(m) == m \in Range(out)

\* message a is printed and b is the next thing printed
PrintedInOrder(a, b) == \E k \in 1..(Len(out) - 1) : out[k] = a /\ out[k + 1] = b

\* the imports before the k-th succeed and the k-th raises `kind`
ImportRaises(kind) ==
    \E k \in 1..Len(Packages) :
      /\ imports[Packages[k]] = kind
      /\ \A j \in 1..(k - 1) : imports[Packages[j]] = "ok"

AllImportsSucceed == \A p \in PackageSet : imports[p] = "ok"

VerifySetupRan == nb = "setup" /\ cell >= 5

\* C1: when the cells of a notebook are run once each from top to bottom, no
\* cell fails with an unbound-name error: every name read at run time, also
\* inside the functions a cell calls, was bound by that cell or an earlier one.
C1_NoUnboundName == exc # "NameError"

\* C2: verify_setup never lets an ImportError escape.  If one of its six
\* imports raises ImportError it prints the missing-packages message and then
\* the pointer to the installation instructions, does not print the success
\* message and returns normally; if all six imports succeed it prints the
\* success message and neither remediation line.
C2_VerifySetupCatchesImportError ==
    VerifySetupRan =>
      /\ exc # "ImportError"
      /\ ImportRaises("ImportError") =>
           /\ exc = "none"
           /\ PrintedInOrder(MsgMissing, MsgFollowInstructions)
           /\ ~InOut(MsgAllInstalled)
      /\ AllImportsSucceed =>
           /\ InOut(MsgAllInstalled)
           /\ ~InOut(MsgMissing)
           /\ ~InOut(MsgFollowInstructions)

\* verify_setup has returned after one of its imports raised ImportError
C2_Witness ==
    /\ VerifySetupRan
    /\ imports["pandas"] = "ImportError"
    /\ imports["torch"] = "ok" /\ imports["torchvision"] = "ok"
    /\ imports["matplotlib"] = "ok"
    /\ guard.caught
    /\ guard.attempts = 4

\* C3 as claimed: every import guard reacts to a missing dependency by
\* catch-and-print only; once a guard has caught an ImportError nothing was
\* installed and the packages of the host are as they were.
C3_CatchAndPrintOnly == guard.caught => procs.pip = 0

\* C3 as amended: verify_setup reacts by catch-and-print only (its two
\* messages, no installation); check_wandb_installation prints its message,
\* runs `pip install wandb` once and returns False.
C3_OnlyVerifySetupPrintsOnly ==
    /\ (guard.fn = "verify_setup" /\ guard.caught) =>
         /\ procs.pip = 0
         /\ PrintedInOrder(MsgMissing, MsgFollowInstructions)
    /\ (guard.fn = "check_wandb_installation" /\ guard.caught) =>
         /\ procs.pip = 1
         /\ out[1] = "W&B is not installed. Installing now..."
         /\ guard.ret = "False"
    /\ nb # "wandb" => procs.pip = 0

\* check_wandb_installation caught the ImportError and its installation
\* changed the host: wandb can be imported now
C3_Witness ==
    /\ guard.fn = "check_wandb_installation"
    /\ guard.caught
    /\ procs.pip = 1
    /\ imports["wandb"] = "ok"

\* C4: no retry.  A call of check_wandb_installation imports wandb exactly
\* once, returns True iff that import succeeded and False iff it raised
\* ImportError (its install step changes nothing of that), and the next cell
\* imports wandb whatever was returned: it binds wandb iff the import works
\* then, and lets the import's exception escape otherwise.
C4_NoRetry ==
    [][ /\ (nb = "wandb" /\ cell = 0 /\ cell' = 1) =>
              /\ guard'.attempts = 1
              /\ guard'.ret = "True" <=> imports["wandb"] = "ok"
              /\ guard'.ret = "False" <=> imports["wandb"] = "ImportError"
              /\ guard'.ret = "None" <=> exc' # "none"
        /\ (nb = "wandb" /\ cell = 1 /\ cell' = 2) =>
              /\ imports["wandb"] = "ok" <=> "wandb" \in bound'
              /\ imports["wandb"] # "ok" => exc' = imports["wandb"]
              /\ guard' = guard
      ]_vars

\* the guard returned False after a successful installation and the next
\* cell imported wandb all the same
C4_Witness ==
    /\ nb = "wandb"
    /\ cell = 2
    /\ guard.ret = "False"
    /\ guard.attempts = 1
    /\ "wandb" \in bound

\* C5: an exception other than ImportError raised inside an import guard's
\* try block (by an import, or by the CUDA device queries of verify_setup
\* after the imports succeeded) escapes the function, and no message of the
\* ImportError handler is printed.
C5_OtherExceptionsPropagate ==
    /\ (VerifySetupRan /\ ImportRaises("OtherError")) =>
         /\ exc = "OtherError"
         /\ ~InOut(MsgMissing) /\ ~InOut(MsgFollowInstructions)
         /\ ~guard.caught
    /\ (VerifySetupRan /\ AllImportsSucceed /\ host.cuda = "faulty") =>
         /\ exc = "RuntimeError"
         /\ InOut(MsgAllInstalled)
         /\ ~InOut(MsgMissing) /\ ~InOut(MsgFollowInstructions)
         /\ ~guard.caught
    /\ (nb = "wandb" /\ cell >= 1 /\ imports["wandb"] = "OtherError") =>
         /\ exc = "OtherError"
         /\ out = << >>
         /\ ~guard.caught

\* the device query of verify_setup raised after the six imports succeeded
C5_Witness ==
    /\ VerifySetupRan
    /\ AllImportsSucceed
    /\ exc = "RuntimeError"
    /\ out[Len(out)] = "CUDA version"

C7_GetOsInfo ==
    (nb = "setup" /\ cell >= 1) =>
      LET name == out[2]
          version == out[3]
      IN
      /\ exc = "none" \/ cell > 1
      /\ name \in { "MacOS", "Windows", "Linux", "Unknown" }
      /\ name = "MacOS" <=> host.system = "Darwin"
      /\ name = "Windows" <=> host.system = "Windows"
      /\ name = "Linux" <=> host.system = "Linux"
      /\ host.system \notin { "Darwin", "Windows", "Linux" } =>
           (name = "Unknown" /\ version = "Unknown")
      /\ (host.system = "Linux" /\ ~host.has_linux_distribution) =>
           version = "Unknown"

\* the first cell has printed what get_os_info returned on a Linux host
\* whose platform module has no linux_distribution
C7_Witness ==
    /\ nb = "setup"
    /\ cell = 1
    /\ host.system = "Linux"
    /\ ~host.has_linux_distribution
    /\ out[2] = "Linux"
    /\ out[3] = "Unknown"

\* the operating systems a text of the set-up notebook is written for
WrittenFor(text) ==
    CASE text \in { "Windows Installation Steps:", "Common Windows Issues:",
                    "To check for NVIDIA GPU on Windows:" } -> { "Windows" }
      [] text \in { "MacOS Installation Steps:", "Common MacOS Issues:" } -> { "MacOS" }
      [] text \in { "Linux Installation Steps:", "Common Linux Issues:" } -> { "Linux" }
      [] text = "To check for NVIDIA GPU on Linux/MacOS:" -> { "Linux", "MacOS" }
      [] OTHER -> {}

Adapted(text, os_name) ==
    IF os_name \in { "Windows", "MacOS", "Linux" }
    THEN os_name \in WrittenFor(text)
    ELSE WrittenFor(text) = {}

\* C8: show_conda_instructions, show_package_installation and
\* show_troubleshooting each emit the text written for the detected operating
\* system, and a generic text (one written for no particular system) when
\* the system is not detected.
C8_InstructionsAdapt ==
    nb = "setup" =>
      /\ cell >= 2 => Adapted(out[5], out[2])
      /\ cell >= 4 => Adapted(out[8], out[2])
      /\ cell = 6 => Adapted(out[Len(out) - 1], out[2])

EvaluateBound == "evaluate_model" \in bound

\* C9: with evaluate_model bound, train_model evaluates after each epoch:
\* the k-th call of evaluate_model is made in epoch k-1 when exactly k passes
\* of nBatches batches are done (after the last batch of that epoch, before
\* the first of the next), its result is logged once, and a call that has
\* returned made one evaluation per epoch.
C9_EvaluatedAfterEachEpoch ==
    EvaluateBound =>
      /\ Len(hist.evalLog) = train.epoch
      /\ Len(hist.testLog) = train.epoch
      /\ \A k \in 1..Len(hist.evalLog) :
           /\ hist.evalLog[k] = << k - 1, k * train.nBatches >>
           /\ hist.testLog[k] = k - 1
      /\ hist.batches = train.epoch * train.nBatches
                          + (IF tpc = "for_batch" THEN train.i ELSE 0)
      /\ Count(wandbCalls, "log") = Len(hist.testLog) + Len(hist.trainLog)
      /\ tpc = "returned" => train.epoch = train.epochs
      /\ tpc # "raised"

\* a call with two epochs of more than a hundred batches has returned
C9_Witness ==
    /\ EvaluateBound
    /\ tpc = "returned"
    /\ train.epochs = 2
    /\ train.nBatches > LogEvery
    /\ hist.evalLog = << << 0, train.nBatches >>, << 1, 2 * train.nBatches >> >>

\* C10: with evaluate_model bound, train_model(epochs=n) returns for every
\* n >= 0 and every finite loader; it has then made exactly n passes over the
\* train loader, printed 'Finished Training' once, as its last message, and
\* called wandb.finish once, as its last call into wandb; before that it has
\* neither printed the message nor finished the run.
C10_TerminatesAfterEpochsPasses ==
    EvaluateBound =>
      /\ <>(tpc = "returned")
      /\ [](tpc = "returned" =>
              /\ hist.passes = train.epochs
              /\ hist.batches = train.epochs * train.nBatches
              /\ Count(out, "Finished Training") = 1
              /\ out[Len(out)] = "Finished Training"
              /\ Count(wandbCalls, "finish") = 1
              /\ wandbCalls[Len(wandbCalls)] = "finish")
      /\ [](tpc # "returned" =>
              /\ Count(out, "Finished Training") = 0
              /\ Count(wandbCalls, "finish") = 0
              /\ hist.passes <= train.epochs)

\* a call with two epochs has returned, its last wandb call being finish and
\* the one before it the log of the last test accuracy
C10_Witness ==
    /\ EvaluateBound
    /\ tpc = "returned"
    /\ train.epochs = 2
    /\ train.nBatches = LogEvery
    /\ hist.passes = 2
    /\ wandbCalls = << "init", "log", "log", "log", "log", "finish" >>

\* the messages with which the functions of the GPU tutorial say that there
\* is no CUDA device
NotAvailableMessages ==
    { "CUDA is not available. Running on CPU only.",
      "GPU operations not available", "GPU not available" }

NotAvailablePrinted == Cardinality({ k \in 1..Len(out) : out[k] \in NotAvailableMessages })

\* no call that needs a device without a True from is_available before it
CudaCallsGuarded ==
    /\ cudaCalls # << >> => cudaCalls[1] = "is_available"
    /\ host.cuda = "unavailable" => \A k \in 1..Len(cudaCalls) : cudaCalls[k] \notin CudaOnly

\* C11 as claimed: in the GPU tutorial every call that needs a CUDA device is
\* made only after torch.cuda.is_available() returned True, and on a host
\* where it returns False each of the five functions returns without raising
\* and prints its not-available message: as many such messages as cells run.
C11_AllFivePrintNotAvailable ==
    nb = "gpu" =>
      /\ CudaCallsGuarded
      /\ host.cuda = "unavailable" =>
           /\ exc = "none"
           /\ NotAvailablePrinted = cell

\* C11 as amended: the calls are guarded as claimed and no function raises
\* without CUDA; check_gpu_availability, demonstrate_gpu_operations,
\* demonstrate_memory_management and check_multi_gpu print a not-available
\* message, benchmark_operations prints none: it prints its table with nan
\* for the GPU time and the speedup.
C11_FourPrintNotAvailable ==
    nb = "gpu" =>
      /\ CudaCallsGuarded
      /\ host.cuda = "unavailable" =>
           /\ exc = "none"
           /\ NotAvailablePrinted = cell - (IF cell >= 3 THEN 1 ELSE 0)
           /\ cell >= 1 => out[4] = "CUDA is not available. Running on CPU only."
           /\ cell >= 2 => out[7] = "GPU operations not available"
           /\ cell >= 3 => SubSeq(out, 8, 11) =
                             << "Matrix Multiplication Performance Comparison:",
                                "1000x1000 nan nan", "2000x2000 nan nan",
                                "4000x4000 nan nan" >>
           /\ cell >= 4 => out[12] = "GPU not available"
           /\ cell >= 5 => out[13] = "GPU not available"

\* the five cells have run on a host without CUDA, each function having asked
\* torch.cuda.is_available() (benchmark_operations once per size)
C11_Witness ==
    /\ nb = "gpu"
    /\ cell = 5
    /\ host.cuda = "unavailable"
    /\ exc = "none"
    /\ cudaCalls = << "is_available", "is_available", "is_available",
                      "is_available", "is_available", "is_available",
                      "is_available" >>

\* C12: a call of check_multi_gpu constructs the DataParallel wrapper at most
\* once and only when the device count is greater than 1; it prints 'only one
\* GPU detected' only when CUDA is available and the count is not greater
\* than 1; without CUDA it prints 'GPU not available' and does nothing more.
C12_DataParallelOnlyWithSeveralGpus ==
    [][ (nb = "gpu" /\ cell = 4 /\ cell' = 5) =>
          LET printed == SubSeq(out', Len(out) + 1, Len(out'))
              called == SubSeq(cudaCalls', Len(cudaCalls) + 1, Len(cudaCalls'))
          IN
          /\ Count(called, "DataParallel") <= 1
          /\ Count(called, "DataParallel") = 1 =>
               (host.cuda # "unavailable" /\ host.gpus > 1)
          /\ "Multi-GPU training not available (only one GPU detected)" \in Range(printed) =>
               (host.cuda # "unavailable" /\ ~(host.gpus > 1))
          /\ host.cuda = "unavailable" =>
               /\ printed = << "GPU not available" >>
               /\ called = << "is_available" >>
               /\ exc' = "none"
      ]_vars

\* check_multi_gpu has wrapped the model on a host with two devices
C12_Witness ==
    /\ nb = "gpu"
    /\ cell = 5
    /\ host.gpus = 2
    /\ Count(cudaCalls, "DataParallel") = 1
    /\ cudaCalls[Len(cudaCalls)] = "DataParallel"
    /\ out[Len(out)] = "Model using DataParallel"

\* C13: CIFAR10Net.forward maps B images of shape 3x32x32 to an output of
\* shape Bx10: no layer refuses its input, each convolution keeps the spatial
\* size, the three poolings halve it (32 -> 16 -> 8 -> 4), the tensor given
\* to view has 128*4*4 = 2048 values per image, and view makes one row of
\* 2048 per image, which is what fc1 takes.
C13_ForwardShape ==
    (call.fn = "forward" /\ call.input[2] = 3 /\ call.input[3] = 32) =>
      LET B == call.input[1]
          pc == call.pc
          x == call.x
      IN
      /\ exc = "none"
      /\ pc \in 1..3 => x = << B, 32, 32, 32 >>
      /\ pc = 4 => x = << B, 32, 16, 16 >>
      /\ pc \in 5..7 => x = << B, 64, 16, 16 >>
      /\ pc = 8 => x = << B, 64, 8, 8 >>
      /\ pc \in 9..11 => x = << B, 128, 8, 8 >>
      /\ pc = 12 => (x = << B, 128, 4, 4 >> /\ Numel(x) = B * 2048)
      /\ pc = 13 => x = << B, 2048 >>
      /\ pc \in 14..16 => x = << B, 512 >>
      /\ pc = 17 => x = << B, 10 >>

\* forward has returned for a batch of three images
C13_Witness ==
    /\ call.fn = "forward"
    /\ call.input = << 3, 3, 32, 32 >>
    /\ call.pc = Len(ForwardLayers)
    /\ call.x = << 3, 10 >>

\* C14: on every test set that is not empty, whatever its labels,
\* evaluate_model raises nothing, and when it has returned it has printed an
\* accuracy for each of the 10 classes and returned 100 * correct / total.
C14_EvaluateNeverRaises ==
    (call.fn = "evaluate_model" /\ Len(call.labels) > 0) =>
      /\ exc = "none"
      /\ call.pc = "returned" =>
           /\ Count(out, "Accuracy of") = NumClasses
           /\ call.total = Len(call.labels)
           /\ call.result = << 100 * call.correct, call.total >>

\* C15: imshow un-normalises the image: what it hands to plt.imshow for a
\* pixel normalised by the notebook's transform is the pixel's original value
\* x, which lies in [0, 1], in every channel.
C15_ImshowUnnormalizes ==
    (call.fn = "imshow" /\ call.pc = "shown") =>
      /\ call.img = call.x
      /\ RatLeq(<< 0, 1 >>, call.img)
      /\ RatLeq(call.img, << 1, 1 >>)

CallsOf(c) == { k \in 1..Len(wandbCalls) : wandbCalls[k] = c }

OpenBefore(k) ==
    Cardinality({ j \in CallsOf("init") : j < k })
    - Cardinality({ j \in CallsOf("finish") : j < k })

Runs ==
    [ open |-> OpenBefore(Len(wandbCalls) + 1),
      overlaps |-> Cardinality({ k \in CallsOf("init") : OpenBefore(k) > 0 }),
      outside |-> Cardinality({ k \in CallsOf("log") : OpenBefore(k) <= 0 }) ]

NotebookDone == cell = 5 /\ sweep.remaining = 0

\* C17 as claimed: in the W&B notebook every wandb.log is made while a run is
\* open, no wandb.init is made while a run started by the notebook is still
\* open, and when the notebook is done every run it started was finished by
\* its own wandb.finish, the runs of the sweep's train_model included.
C17_EveryRunFinished ==
    nb = "wandb" =>
      /\ Runs.outside = 0
      /\ Runs.overlaps = 0
      /\ (NotebookDone /\ exc = "none") => Runs.open = 0

\* C17 as amended: every wandb.log is made while a run is open; the runs of
\* the first-experiment and advanced-tracking cells are finished by
\* wandb.finish in their own cell, before the next wandb.init; the runs
\* started inside the sweep's train_model are not finished by the notebook:
\* each call of train_model leaves its run open, so every one after the first
\* calls wandb.init over the run of the one before.
C17_SweepRunsLeftOpen ==
    nb = "wandb" =>
      /\ Runs.outside = 0
      /\ Runs.open = sweep.runs
      /\ Runs.overlaps = IF sweep.runs > 0 THEN sweep.runs - 1 ELSE 0
      /\ cell >= 3 => Count(wandbCalls, "finish") = cell - 2 - (IF cell = 5 THEN 1 ELSE 0)
      /\ Count(wandbCalls, "init") = Count(wandbCalls, "finish") + sweep.runs

\* the agent has made its five runs and none of them was finished
C17_Witness ==
    /\ nb = "wandb"
    /\ NotebookDone
    /\ exc = "none"
    /\ sweep.runs = SweepCount
    /\ Runs.open = SweepCount
    /\ wandbCalls[Len(wandbCalls)] = "log"

\* C18: every run of the sweep's train_model makes wandb.config.epochs = 50
\* optimizer steps, logs one 'loss' (the metric of the sweep) per step, gives
\* the sweep's learning_rate to the optimizer, and every parameter declared
\* in sweep_configuration has a part in the run: train_model reads it.
C18_EveryParameterUsed ==
    (nb = "wandb" /\ sweep.last.kind = "run") =>
      LET run == sweep.last IN
      /\ run.steps = SweepEpochs
      /\ run.steps = run.config.epochs
      /\ Len(run.logged) = run.steps
      /\ \A e \in 1..Len(run.logged) : run.logged[e] = { "loss" }
      /\ run.lr = run.config.learning_rate
      /\ \A parameter \in DOMAIN SweepParameters : parameter \in run.reads

\* the training records of the epoch train_model is in
RecordsOfEpoch ==
    { k \in 1..Len(hist.trainLog) : hist.trainLog[k][1] = train.epoch }

\* C19: in train_model a training record is logged exactly at the batch
\* indices i with i % 100 = 99; its loss is the sum of the losses of the 100
\* batches since the previous record (or the start of the epoch) over 100,
\* its accuracy covers the same 100 batches; running_loss, correct and total
\* are zero after each record and at each epoch start, so they hold just what
\* the batches since then added: a batch is counted in at most one record,
\* and those with an index from 100 * floor(N / 100) on are counted in none.
C19_RecordEveryHundredBatches ==
    tpc = "for_batch" =>
      /\ \A k \in 1..Len(hist.trainLog) : hist.trainLog[k][2] % 100 = 99
      /\ Cardinality(RecordsOfEpoch) = train.i \div 100
      /\ \A k \in RecordsOfEpoch : hist.trainLog[k][2] < train.i
      /\ hist.logged.kind = "train" =>
           /\ (train.i - 1) % 100 = 99
           /\ hist.logged.window.n = 100
           /\ hist.logged.loss = << hist.logged.window.loss, 100 >>
           /\ hist.logged.accuracy = << 100 * hist.logged.window.hits,
                                        hist.logged.window.size >>
           /\ train.running_loss = 0 /\ train.correct = 0 /\ train.total = 0
      /\ train.i = 0 =>
           (train.running_loss = 0 /\ train.correct = 0 /\ train.total = 0)
      /\ train.running_loss = hist.window.loss
      /\ train.correct = hist.window.hits
      /\ train.total = hist.window.size
      /\ hist.window.n = train.i % 100
      /\ hist.counted = 100 * (train.i \div 100)
      /\ hist.counted + hist.window.n = train.i
      /\ train.i = train.nBatches =>
           /\ hist.counted = 100 * (train.nBatches \div 100)
           /\ hist.window.n = train.nBatches - 100 * (train.nBatches \div 100)

\* an epoch of 201 batches is through: two records were logged, the second
\* for the batches 100..199, and the last batch is counted in none
C19_Witness ==
    /\ tpc = "for_batch"
    /\ train.nBatches = 201
    /\ train.i = 201
    /\ train.epoch = 1
    /\ hist.trainLog = << << 0, 99 >>, << 0, 199 >>, << 1, 99 >>, << 1, 199 >> >>
    /\ hist.counted = 200
    /\ hist.window.n = 1

\* C20: in train_model 0 <= correct <= total after every batch, total > 0
\* whenever 100 * correct / total is computed, so that division never raises
\* and the accuracy logged lies in [0, 100].
C20_AccuracyWithinBounds ==
    /\ exc # "ZeroDivisionError"
    /\ 0 <= train.correct
    /\ train.correct <= train.total
    /\ hist.logged.kind = "train" =>
         /\ hist.logged.accuracy[2] > 0
         /\ 0 <= hist.logged.accuracy[1]
         /\ hist.logged.accuracy[1] <= 100 * hist.logged.accuracy[2]

\* the second record of an epoch was logged with an accuracy of 37 %
C20_Witness ==
    /\ tpc = "for_batch"
    /\ train.i = 200
    /\ hist.logged.kind = "train"
    /\ hist.logged.accuracy = << 3700, 100 >>
    /\ train.correct = 0
    /\ train.total = 0

====
